---- MODULE Spec2Model ----
(***************************************************************************)
(* Commit-graph construction and layout of Awabancha.                      *)
(*                                                                         *)
(* CommitGraphData::build collects a window of the revision walk and       *)
(* layout_graph assigns a column, a row and a color to every commit of the *)
(* window and an edge to every parent relationship.  GitState keeps the    *)
(* result of the first page (open_repository, refresh) and appends later   *)
(* pages to it (load_more_commits).                                        *)
(*                                                                         *)
(* The repository is fixed by Init: commits are named by their position in *)
(* the revision walk (1 is visited first), the walk lists children before  *)
(* parents, so the parents of commit c are commits greater than c.         *)
(*                                                                         *)
(* Spec covers the GitState operations over all small repositories;       *)
(* SpecSearch adds search_commits over commits that carry text, SpecWide   *)
(* builds octopus merges that occupy more columns than the palette has     *)
(* colors, and SpecRefs builds repositories with branches and tags.        *)
(***************************************************************************)
EXTENDS Integers, Sequences, FiniteSets, TLC

\* ---------------------------------------------------------------- bounds
\* Number of commits of the repository (the length of the revision walk).
NumCommits == 4
\* Largest number of parents of one commit.
MaxParents == 2
\* Largest number of commits whose lookup fails during the walk.
MaxFail == 1
\* The page size that open_repository and load_more_commits pass as `limit`
\* (100 in the program, scaled down here).
PageLimit == 2
\* Number of commits of the repositories that are searched.
ChainLen == 3
\* Longest query and largest result cap passed to search_commits.
MaxQueryLen == 2
MaxCap == 2
\* Largest number of parents of the octopus merge of the wide repositories.
MaxWide == 9
\* Number of commits of the repositories whose references vary.
RefCommits == 2
\* Number of commits, and largest number of parents of one commit, of the
\* repositories with merges of several branches.
MergeLen == 5
MergeParents == 3

\* ---------------------------------------------------------------- data
Commits == 1..NumCommits

\* Option::None of a lane slot (commit ids start at 1).
None == 0

\* const COLORS: [u32; 8]
COLORS == <<9024762, 10937249, 16376495, 16429959,
            15961000, 13346551, 9757397, 16106215>>

\* enum EdgeType
Linear == "Linear"
Branch == "Branch"
Merge == "Merge"

\* HashMap::new()
EmptyMap == [k \in {} |-> 0]

\* HashMap::insert: the value of an existing key is overwritten.
Insert(map, k, v) == [x \in (DOMAIN map) \cup {k} |-> IF x = k THEN v ELSE map[x]]

Range(s) == {s[i] : i \in DOMAIN s}

\* The parent lists a commit can have: distinct later commits of the walk.
ParentLists(c) ==
    {s \in UNION {[1..n -> (c+1)..NumCommits] : n \in 0..MaxParents} :
        \A i, j \in DOMAIN s : i # j => s[i] # s[j]}

\* The repositories: every commit with one of its parent lists.
RECURSIVE Repos(_)
Repos(c) ==
    IF c > NumCommits THEN {EmptyMap}
    ELSE {Insert(m, c, p) : m \in Repos(c + 1), p \in ParentLists(c)}

\* ---------------------------------------------------------------- strings
\* A string is a sequence of characters.

\* char::to_lowercase on the letters that occur here.
ToLower(ch) == CASE ch = "A" -> "a" [] ch = "B" -> "b" [] OTHER -> ch

\* str::to_lowercase
ToLowercase(s) == [i \in DOMAIN s |-> ToLower(s[i])]

\* str::contains
StrContains(s, q) ==
    \E i \in 0..(Len(s) - Len(q)) : SubSeq(s, i + 1, i + Len(q)) = q

\* str::starts_with
StartsWith(s, q) == Len(q) <= Len(s) /\ SubSeq(s, 1, Len(q)) = q

\* Iterator::take
Take(s, n) == SubSeq(s, 1, IF n < Len(s) THEN n ELSE Len(s))

\* Oid::to_string: lowercase hex digits, a different string for every
\* commit (three digits here instead of forty).
HexDigits == <<"1", "a", "b">>

Hex(c) == <<HexDigits[(c % 3) + 1], HexDigits[((c \div 3) % 3) + 1],
            HexDigits[((c \div 9) % 3) + 1]>>

\* sha[..7]: the length of the short sha (two of three digits here).
ShortLen == 2

\* What a commit carries besides its parents: summary line and author name.
CommitTexts ==
    {[message |-> <<"a", "b">>, author |-> <<"b">>],
     [message |-> <<"B", "a">>, author |-> <<"A">>],
     [message |-> <<"a">>, author |-> <<"B">>]}
NoText == [message |-> <<>>, author |-> <<>>]

\* The queries tried by the search.
QueryChars == {"A", "b"}
Queries == UNION {[1..n -> QueryChars] : n \in 0..MaxQueryLen}

\* ---------------------------------------------------------------- references
\* Local and remote branches by shorthand name; a tag by its full reference
\* name, a sequence that starts with the "refs/tags/" prefix.
TagsPrefix == "refs/tags/"
BranchNames == {"main", "dev"}
RemoteNames == {"origin/main", "origin/HEAD"}
TagRefs == {<<TagsPrefix, "v1">>, <<TagsPrefix, "v2">>,
            <<TagsPrefix, TagsPrefix, "v1">>}

\* The object id of an annotated tag object that annotates commit c.
TagObject(c) == 0 - c

\* obj.as_tag().is_some()
IsTag(oid) == oid < 0

\* tag.target_id()
TargetId(oid) == 0 - oid

\* str::trim_start_matches: every leading repetition of the prefix is removed.
RECURSIVE TrimStartMatches(_, _)
TrimStartMatches(s, prefix) ==
    IF s # <<>> /\ Head(s) = prefix
    THEN TrimStartMatches(Tail(s), prefix)
    ELSE s

\* The order in which the backend iterates over a set of references.
RECURSIVE IterOrder(_)
IterOrder(S) ==
    IF S = {} THEN <<>>
    ELSE LET x == CHOOSE y \in S : TRUE
         IN  <<x>> \o IterOrder(S \ {x})

\* A repository without references (HEAD detached).
NoRefs == [branches |-> EmptyMap, remotes |-> EmptyMap, tags |-> EmptyMap]

VARIABLES
    texts,           \* repository: commit -> summary and author name
    refs,            \* repository: branches, remotes, tags -> target
    query,           \* search_commits: the query of the last call
    cap,             \* search_commits: the limit of the last call
    found,           \* search_commits: the Vec the last call returned
    parents,         \* repository: commit -> ordered list of its parents
    failing,         \* repository: commits whose lookup fails (find_commit)
    head_born,       \* repository: HEAD points at a commit (not unborn)
    path,            \* GitState.path is Some
    gs_commits,      \* GitState.commits: <<>> is None, <<d>> is Some(d)
    pc,              \* "idle", or the position inside build/layout_graph
    caller,          \* which operation called build
    result,          \* the Result the last call returned; "none" when it
                     \* returned nothing or is still running
    commits,         \* build: the collected window
    row,             \* layout_graph: index of the commit being laid out
    parent_idx,      \* layout_graph: index of the parent being processed
    column,          \* layout_graph: column of the commit being laid out
    nodes,           \* layout_graph: the node list
    edges,           \* layout_graph: the edge list
    max_column,      \* layout_graph: highest column so far
    active_columns,  \* layout_graph: the lane table
    sha_to_row,      \* layout_graph: commit -> row
    sha_to_column    \* layout_graph: commit -> column

repo == <<parents, failing, head_born, texts, refs>>
search == <<query, cap, found>>
layout == <<commits, row, parent_idx, column, nodes, edges, max_column,
            active_columns, sha_to_row, sha_to_column>>
vars == <<texts, refs, query, cap, found, parents, failing, head_born, path, gs_commits, pc, caller, result,
          commits, row,
          parent_idx, column, nodes, edges, max_column, active_columns,
          sha_to_row, sha_to_column>>

\* The number of commits that the revision walk visits.
WalkLen == Cardinality(DOMAIN parents)

\* ---------------------------------------------------------------- build

\* The loop of build that collects the window: position i of the walk is
\* skipped while i < offset, the loop stops at i >= offset + limit, and a
\* commit whose lookup fails is not pushed.
InWindow(c, offset, limit) ==
    /\ c - 1 >= offset
    /\ c - 1 < offset + limit
    /\ c \notin failing

RECURSIVE Collect(_, _, _)
Collect(i, offset, limit) ==
    IF i > WalkLen THEN <<>>
    ELSE IF InWindow(i, offset, limit)
         THEN <<i>> \o Collect(i + 1, offset, limit)
         ELSE Collect(i + 1, offset, limit)

\* Faulty variant of the collection loop: the first failed lookup inside the
\* window ends the collection.
RECURSIVE CollectUntilFailure(_, _, _)
CollectUntilFailure(i, offset, limit) ==
    IF i > WalkLen \/ i - 1 >= offset + limit THEN <<>>
    ELSE IF i - 1 < offset THEN CollectUntilFailure(i + 1, offset, limit)
    ELSE IF i \in failing THEN <<>>
    ELSE <<i>> \o CollectUntilFailure(i + 1, offset, limit)

WindowAbortsOnFailure(offset, limit) == CollectUntilFailure(1, offset, limit)

Window(offset, limit) == Collect(1, offset, limit)

\* ---------------------------------------------------------------- layout

\* active_columns.iter().position(|c| c.is_none()): some lane is empty.
HasFree(ac) == \E i \in DOMAIN ac : ac[i] = None

\* Faulty variant of FirstFree: the search runs from the end of the lane
\* table (rposition) and finds the last empty lane.
LastFree(ac) ==
    IF HasFree(ac)
    THEN (CHOOSE i \in DOMAIN ac :
              ac[i] = None /\ \A j \in DOMAIN ac : ac[j] = None => i >= j) - 1
    ELSE Len(ac)

\* ... .unwrap_or_else(|| { active_columns.push(None); len - 1 }): the index
\* (0-based) of the first empty lane, or of the lane that is appended.
FirstFree(ac) ==
    IF HasFree(ac)
    THEN (CHOOSE i \in DOMAIN ac :
              ac[i] = None /\ \A j \in DOMAIN ac : ac[j] = None => i <= j) - 1
    ELSE Len(ac)

\* The lane table after that search: a lane is appended when none is empty.
AfterSearch(ac) == IF HasFree(ac) THEN ac ELSE Append(ac, None)

\* if col < active_columns.len() { active_columns[col] = v }
SetLane(ac, col, v) ==
    IF col < Len(ac) THEN [ac EXCEPT ![col + 1] = v] ELSE ac

\* Faulty variant of ReserveLane: the lane is left as it was.
ReserveLaneForgotten(ac, col, parent_sha) == ac

\* First parent: if column < active_columns.len() { active_columns[column] =
\* Some(parent_sha) }, the lane is marked as expecting the parent.
ReserveLane(ac, col, parent_sha) == SetLane(ac, col, parent_sha)

\* Faulty variant of MaxColumn: the maximum is never raised.
MaxColumnStale(mc, col) == mc

\* max_column = max_column.max(col)
MaxColumn(mc, col) == IF col > mc THEN col ELSE mc

\* COLORS[column % COLORS.len()]
\* Faulty variant of ColorOf: columns past the palette all take its last
\* color instead of wrapping around.
ColorClamped(col) == COLORS[IF col < Len(COLORS) THEN col + 1 ELSE Len(COLORS)]

ColorOf(col) == COLORS[(col % Len(COLORS)) + 1]

\* Faulty variant of RowOf: rows counted from 1.
RowOfOneBased(i) == i + 1

\* The row given to the commit at position `i` of the window (enumerate()).
RowOf(i) == i

\* Faulty variant of CommitColumn: a reserved column is not looked up.
CommitColumnIgnoresReservation(sha, stc, ac) == FirstFree(ac)

\* Faulty variant of CommitColumn: the search for an empty lane comes before
\* the lookup of the reserved column.
CommitColumnPrefersFree(sha, stc, ac) ==
    IF HasFree(ac) THEN FirstFree(ac)
    ELSE IF sha \in DOMAIN stc THEN stc[sha] ELSE Len(ac)

\* Column of the commit being visited: the reserved one, else the first
\* free lane.
CommitColumn(sha, stc, ac) ==
    IF sha \in DOMAIN stc THEN stc[sha] ELSE FirstFree(ac)

\* Faulty variant of FirstParentColumn: the first parent gets a free lane.
FirstParentNewLane(col, ac) == FirstFree(ac)

\* Column of the first parent: the commit's own column.
FirstParentColumn(col, ac) == col

\* Faulty variant of OtherParentColumn: the parent is put into the commit's
\* own column, like a first parent.
OtherParentSameColumn(col, ac) == col

\* Faulty variant of OtherParentColumn: a new lane is appended even when a
\* slot of the table is empty.
OtherParentAppends(col, ac) == Len(ac)

\* Column of a parent of index >= 1: the first free lane.
OtherParentColumn(col, ac) == FirstFree(ac)

\* Faulty variants of EdgeTypeOf: the column test before the parent count,
\* and Linear and Branch exchanged.
EdgeTypeColumnFirst(nparents, col, parent_column) ==
    IF col # parent_column THEN Branch
    ELSE IF nparents > 1 THEN Merge
    ELSE Linear

EdgeTypeSwapped(nparents, col, parent_column) ==
    IF nparents > 1 THEN Merge
    ELSE IF col # parent_column THEN Linear
    ELSE Branch

\* Classification of an edge.
EdgeTypeOf(nparents, col, parent_column) ==
    IF nparents > 1 THEN Merge
    ELSE IF col # parent_column THEN Branch
    ELSE Linear

\* Faulty variant of ParentRow: the default is the row of the commit itself.
ParentRowSameRow(str, parent_sha, r) ==
    IF parent_sha \in DOMAIN str THEN str[parent_sha] ELSE r

\* sha_to_row.get(&parent_sha).copied().unwrap_or(row + 1)
ParentRow(str, parent_sha, r) ==
    IF parent_sha \in DOMAIN str THEN str[parent_sha] ELSE r + 1

\* build_branches_map, build_remotes_map: the names of the direct references
\* (target() is Some) by target, in iteration order.
BranchMap(f) ==
    [oid \in {f[n] : n \in DOMAIN f} \ {None} |->
        IterOrder({n \in DOMAIN f : f[n] = oid})]

build_branches_map == BranchMap(refs.branches)

build_remotes_map == BranchMap(refs.remotes)

\* build_tags_map: the object a tag name is recorded under.
TagTarget(oid) == IF IsTag(oid) THEN TargetId(oid) ELSE oid

\* build_tags_map: the names, with "refs/tags/" trimmed, by target.
build_tags_map ==
    LET f == refs.tags
    IN  [oid \in {TagTarget(f[r]) : r \in DOMAIN f} |->
            LET rs == IterOrder({r \in DOMAIN f : TagTarget(f[r]) = oid})
            IN  [i \in DOMAIN rs |-> TrimStartMatches(rs[i], TagsPrefix)]]

\* map.get(&oid).cloned().unwrap_or_default()
MapGet(map, oid) == IF oid \in DOMAIN map THEN map[oid] ELSE <<>>

\* The node; sha .. tags are the fields of its CommitInfo (from_commit).
GraphNode(sha, col, r) ==
    [sha |-> sha, parents |-> parents[sha], column |-> col, row |-> r,
     color |-> ColorOf(col),
     short_sha |-> SubSeq(Hex(sha), 1, ShortLen),
     message |-> texts[sha].message,
     author |-> texts[sha].author,
     branches |-> MapGet(build_branches_map, sha),
     remotes |-> MapGet(build_remotes_map, sha),
     tags |-> MapGet(build_tags_map, sha)]

GraphEdge(sha, parent_sha, col, parent_column, r, parent_row, nparents) ==
    [from_sha |-> sha, to_sha |-> parent_sha,
     from_column |-> col, to_column |-> parent_column,
     from_row |-> r, to_row |-> parent_row,
     color |-> ColorOf(col),
     edge_type |-> EdgeTypeOf(nparents, col, parent_column)]

\* The commit being laid out.
Sha == commits[row + 1]

\* Faulty variant of Parents: parents outside the window are dropped.
ParentsInWindow(sha) ==
    LET InCommits(p) == p \in Range(commits) IN SelectSeq(parents[sha], InCommits)

\* let parents: Vec<Oid> = commit.parents().map(|p| p.id()).collect()
Parents(sha) == parents[sha]

\* Where the loops continue after the parent of index `done - 1`.
Advance(done) ==
    IF done < Len(Parents(Sha))
    THEN /\ pc' = "parents"
         /\ parent_idx' = done
         /\ row' = row
    ELSE /\ pc' = "commit"
         /\ parent_idx' = 0
         /\ row' = row + 1

\* No call of build is running.
ResetLocals ==
    /\ pc' = "idle"
    /\ caller' = "none"
    /\ commits' = <<>>
    /\ row' = 0
    /\ parent_idx' = 0
    /\ column' = 0
    /\ nodes' = <<>>
    /\ edges' = <<>>
    /\ max_column' = 0
    /\ active_columns' = <<>>
    /\ sha_to_row' = EmptyMap
    /\ sha_to_column' = EmptyMap

\* Faulty variant of StartBuild: the commit -> column map is a table shared
\* by all calls, which still holds the columns of the commits laid out for
\* GitState.
StartBuildSharedMap(who, offset, limit) ==
    /\ pc' = "commit"
    /\ caller' = who
    /\ result' = "none"
    /\ commits' = Window(offset, limit)
    /\ row' = 0
    /\ parent_idx' = 0
    /\ column' = 0
    /\ nodes' = <<>>
    /\ edges' = <<>>
    /\ max_column' = 0
    /\ active_columns' = <<>>
    /\ sha_to_row' = EmptyMap
    /\ sha_to_column' =
          IF gs_commits = <<>> THEN EmptyMap
          ELSE LET old == gs_commits[1].nodes
               IN  [s \in {old[i].sha : i \in DOMAIN old} |->
                       old[CHOOSE i \in DOMAIN old : old[i].sha = s].column]

\* Faulty variant of StartBuild: the layout continues with the columns that
\* the edges of the loaded pages recorded for their parents.
StartBuildContinuesLanes(who, offset, limit) ==
    /\ pc' = "commit"
    /\ caller' = who
    /\ result' = "none"
    /\ commits' = Window(offset, limit)
    /\ row' = 0
    /\ parent_idx' = 0
    /\ column' = 0
    /\ nodes' = <<>>
    /\ edges' = <<>>
    /\ max_column' = 0
    /\ active_columns' = <<>>
    /\ sha_to_row' = EmptyMap
    /\ sha_to_column' =
          IF gs_commits = <<>> THEN EmptyMap
          ELSE LET old == gs_commits[1].edges
               IN  [s \in {old[i].to_sha : i \in DOMAIN old} |->
                       old[CHOOSE i \in DOMAIN old : old[i].to_sha = s].to_column]

\* Start of build and of layout_graph: the window is collected and the
\* layout state is fresh.
StartBuild(who, offset, limit) ==
    /\ pc' = "commit"
    /\ caller' = who
    /\ result' = "none"
    /\ commits' = Window(offset, limit)
    /\ row' = 0
    /\ parent_idx' = 0
    /\ column' = 0
    /\ nodes' = <<>>
    /\ edges' = <<>>
    /\ max_column' = 0
    /\ active_columns' = <<>>
    /\ sha_to_row' = EmptyMap
    /\ sha_to_column' = EmptyMap

\* One iteration of `for (row, commit) in commits.iter().enumerate()` up to
\* the push of the node.
LayoutCommit ==
    /\ pc = "commit"
    /\ row < Len(commits)
    /\ LET sha == Sha
           reserved == sha \in DOMAIN sha_to_column
           col == CommitColumn(sha, sha_to_column, active_columns)
           ac1 == IF reserved THEN active_columns ELSE AfterSearch(active_columns)
       IN  /\ sha_to_row' = Insert(sha_to_row, sha, RowOf(row))
           /\ sha_to_column' =
                  IF reserved THEN sha_to_column ELSE Insert(sha_to_column, sha, col)
           /\ active_columns' = SetLane(ac1, col, None)
           /\ column' = col
           /\ max_column' = MaxColumn(max_column, col)
           /\ nodes' = Append(nodes, GraphNode(sha, col, RowOf(row)))
    /\ Advance(0)
    /\ UNCHANGED <<repo, search, path, gs_commits, caller, result, commits, edges>>

\* One iteration of `for (parent_idx, parent_oid) in parents.iter().enumerate()`.
LayoutParent ==
    /\ pc = "parents"
    /\ parent_idx < Len(Parents(Sha))
    /\ LET sha == Sha
           parent_sha == Parents(sha)[parent_idx + 1]
           nparents == Len(Parents(sha))
           first == parent_idx = 0
           ac1 == IF first THEN active_columns ELSE AfterSearch(active_columns)
           parent_column == IF first
                            THEN FirstParentColumn(column, active_columns)
                            ELSE OtherParentColumn(column, active_columns)
           parent_row == ParentRow(sha_to_row, parent_sha, row)
       IN  /\ sha_to_column' = Insert(sha_to_column, parent_sha, parent_column)
           /\ active_columns' =
                  IF first THEN ReserveLane(ac1, parent_column, parent_sha)
                  ELSE IF parent_column < Len(ac1)
                  THEN SetLane(ac1, parent_column, parent_sha)
                  ELSE Append(ac1, parent_sha)
           /\ max_column' = IF first THEN max_column
                            ELSE MaxColumn(max_column, parent_column)
           /\ edges' = Append(edges, GraphEdge(sha, parent_sha, column,
                                 parent_column, row, parent_row, nparents))
    /\ Advance(parent_idx + 1)
    /\ UNCHANGED <<repo, search, path, gs_commits, caller, result, commits, column,
                   nodes, sha_to_row>>

\* The CommitGraphData that build returns.
Built == [nodes |-> nodes, edges |-> edges, max_column |-> max_column]

\* ---------------------------------------------------------------- GitState

\* open_repository up to its call of build(&repo, 100, 0).  With an unborn
\* HEAD, repo.head() and revwalk.push_head() fail: see OpenRepositoryFails.
OpenRepository ==
    /\ pc = "idle"
    /\ head_born
    /\ path' = TRUE
    /\ StartBuild("open", 0, PageLimit)
    /\ UNCHANGED <<repo, search, gs_commits>>

\* open_repository returns an error: Repository::open fails before anything
\* is stored, or HEAD is unborn and RepositoryInfo::from_repo fails after
\* self.path was set.  self.commits is not assigned.
OpenRepositoryFails ==
    /\ pc = "idle"
    /\ \/ path' = path
       \/ ~head_born /\ path' = TRUE
    /\ result' = "open_err"
    /\ UNCHANGED <<repo, search, gs_commits, pc, caller, layout>>

\* refresh: open_repository on the current path, when there is one.
Refresh ==
    /\ pc = "idle"
    /\ path
    /\ head_born
    /\ StartBuild("open", 0, PageLimit)
    /\ UNCHANGED <<repo, search, path, gs_commits>>

\* refresh when its open_repository returns an error (the error message is
\* kept in self.error).
RefreshFails ==
    /\ pc = "idle"
    /\ path
    /\ result' = "open_err"
    /\ UNCHANGED <<repo, search, path, gs_commits, pc, caller, layout>>

\* load_more_commits up to its call of build(&repo, 100, current_count).
CurrentCount == IF gs_commits = <<>> THEN 0 ELSE Len(gs_commits[1].nodes)

LoadMoreCommits ==
    /\ pc = "idle"
    /\ path
    /\ head_born
    /\ StartBuild("more", CurrentCount, PageLimit)
    /\ UNCHANGED <<repo, search, path, gs_commits>>

\* Faulty variant of LoadMoreCommitsFails: the loaded commits are dropped
\* when the build fails.
LoadMoreCommitsFailsDrops ==
    /\ pc = "idle"
    /\ path
    /\ result' = "more_err"
    /\ gs_commits' = <<>>
    /\ UNCHANGED <<repo, search, path, pc, caller, layout>>

\* load_more_commits returns an error: Repository::open(path)? or
\* CommitGraphData::build(..)? fails, before self.commits is touched.
LoadMoreCommitsFails ==
    /\ pc = "idle"
    /\ path
    /\ result' = "more_err"
    /\ UNCHANGED <<repo, search, path, gs_commits, pc, caller, layout>>

\* A direct call of CommitGraphData::build(&repo, limit, 0) with a limit that
\* covers the whole walk, as in test_commit_graph_data_build; its result is
\* not stored in GitState.  build does not read GitState, so the call is
\* modelled while no repository is open there.
Build ==
    /\ pc = "idle"
    /\ ~path
    /\ head_born
    /\ StartBuild("build", 0, WalkLen)
    /\ UNCHANGED <<repo, search, path, gs_commits>>

\* The direct call of build on a repository whose HEAD is unborn:
\* revwalk.push_head()? returns the error of the backend.
BuildFails ==
    /\ pc = "idle"
    /\ ~path
    /\ ~head_born
    /\ result' = "build_err"
    /\ UNCHANGED <<repo, search, path, gs_commits, pc, caller, layout>>

\* Faulty variant of Extend: the new page is put in front of the loaded one.
ExtendInFront(old, more) ==
    [nodes |-> more.nodes \o old.nodes,
     edges |-> more.edges \o old.edges,
     max_column |-> old.max_column]

\* What load_more_commits stores: the new nodes and edges are appended.
Extend(old, more) ==
    [nodes |-> old.nodes \o more.nodes,
     edges |-> old.edges \o more.edges,
     max_column |-> old.max_column]

\* layout_graph and build return, and the caller stores the result; the
\* locals of the call are gone.
BuildReturn ==
    /\ pc = "commit"
    /\ row >= Len(commits)
    /\ gs_commits' =
          IF caller = "open" THEN <<Built>>
          ELSE IF caller = "build" \/ gs_commits = <<>> THEN gs_commits
          ELSE <<Extend(gs_commits[1], Built)>>
    /\ result' = caller \o "_ok"
    /\ ResetLocals
    /\ UNCHANGED <<repo, search, path>>

\* close_repository
CloseRepository ==
    /\ pc = "idle"
    /\ path
    /\ path' = FALSE
    /\ gs_commits' = <<>>
    /\ result' = "none"
    /\ UNCHANGED <<repo, search, pc, caller, layout>>

\* node.commit: the CommitInfo of a node.
CommitOf(n) ==
    [sha |-> n.sha, short_sha |-> n.short_sha, message |-> n.message,
     author |-> n.author, parents |-> n.parents, branches |-> n.branches,
     remotes |-> n.remotes, tags |-> n.tags]

\* The filter of search_commits; q is the lowercased query.
Matches(n, q) ==
    \/ StrContains(ToLowercase(n.message), q)
    \/ StrContains(ToLowercase(n.author), q)
    \/ StartsWith(ToLowercase(Hex(n.sha)), q)
    \/ StartsWith(ToLowercase(n.short_sha), q)

\* .map(|node| node.commit.clone()).collect()
CommitsOf(ns) == [i \in DOMAIN ns |-> CommitOf(ns[i])]

\* Faulty variant of SearchResult: the cap is applied before the filter.
SearchResultCapsFirst(q0, limit) ==
    LET q == ToLowercase(q0)
    IN  IF q = <<>> THEN <<>>
        ELSE IF gs_commits # <<>>
             THEN CommitsOf(SelectSeq(Take(gs_commits[1].nodes, limit),
                                      LAMBDA n : Matches(n, q)))
             ELSE <<>>

\* The value search_commits returns.
SearchResult(q0, limit) ==
    LET q == ToLowercase(q0)
    IN  IF q = <<>> THEN <<>>
        ELSE IF gs_commits # <<>>
             THEN CommitsOf(Take(SelectSeq(gs_commits[1].nodes,
                                           LAMBDA n : Matches(n, q)), limit))
             ELSE <<>>

\* search_commits(query, limit)
SearchCommits ==
    /\ pc = "idle"
    /\ \E q \in Queries, limit \in 0..MaxCap :
          /\ query' = q
          /\ cap' = limit
          /\ found' = SearchResult(q, limit)
    /\ UNCHANGED <<repo, path, gs_commits, pc, caller, result, layout>>

\* ---------------------------------------------------------------- properties

\* layout_graph has laid out the whole window and build is about to return
\* Built.
Returning == pc = "commit" /\ row >= Len(commits)

SetMax(S) == CHOOSE m \in S : \A x \in S : x <= m

\* Every column a CommitGraphData refers to.
ColumnsOf(d) ==
    {d.nodes[i].column : i \in DOMAIN d.nodes}
        \cup {d.edges[i].from_column : i \in DOMAIN d.edges}
        \cup {d.edges[i].to_column : i \in DOMAIN d.edges}

NodeShas == {nodes[i].sha : i \in DOMAIN nodes}

\* C1: the max_column that a build returns is the largest column among its
\* nodes and the from_column and to_column of its edges, and 0 when it has
\* no node.
C1_MaxColumnExact ==
    Returning =>
        IF nodes = <<>> THEN max_column = 0
        ELSE max_column = SetMax(ColumnsOf(Built))

\* A build returns a result whose largest column belongs to an edge only.
C1_Witness ==
    /\ Returning
    /\ max_column >= 1
    /\ \A i \in DOMAIN nodes : nodes[i].column < max_column

\* C2: the CommitGraphData that GitState holds has a max_column that is at
\* least every column of its nodes and edges, also after later pages were
\* appended.
C2_MaxColumnCoversLoaded ==
    (pc = "idle" /\ gs_commits # <<>>) =>
        \A c \in ColumnsOf(gs_commits[1]) : c <= gs_commits[1].max_column

\* C3: the i-th node of a build (0-based) has row i, also when lookups of
\* commits of the window failed.
C3_RowsAreIndexes ==
    \A i \in DOMAIN nodes : nodes[i].row = i - 1

\* A build returns two nodes around a commit whose lookup failed.
C3_Witness ==
    /\ Returning
    /\ \E i \in DOMAIN nodes : \E c \in failing :
          /\ i + 1 \in DOMAIN nodes
          /\ nodes[i].sha < c
          /\ c < nodes[i + 1].sha

\* The edges that leave a commit.
EdgesFrom(sha) == {i \in DOMAIN edges : edges[i].from_sha = sha}

\* C4: in a build result every node has as many outgoing edges as its commit
\* has parents, parents outside the window included; a root has none.
C4_EdgesPerParent ==
    Returning =>
        \A i \in DOMAIN nodes :
            Cardinality(EdgesFrom(nodes[i].sha)) = Len(nodes[i].parents)

\* A build returns a root, and a commit with two edges of which one leads
\* outside the window.
C4_Witness ==
    /\ Returning
    /\ \E i \in DOMAIN nodes :
          /\ Len(nodes[i].parents) = 0
          /\ EdgesFrom(nodes[i].sha) = {}
    /\ \E i \in DOMAIN nodes :
          /\ Cardinality(EdgesFrom(nodes[i].sha)) = 2
          /\ \E j \in EdgesFrom(nodes[i].sha) : edges[j].to_sha \notin NodeShas

\* The edge leads to the first parent of the commit it leaves.
IsFirstParentEdge(e) == e.to_sha = parents[e.from_sha][1]

\* C5: the edge to the first parent of a commit stays in the column of the
\* commit: to_column = from_column, and from_column is the column of the
\* commit's node.
C5_FirstParentSameColumn ==
    \A i \in DOMAIN edges :
        IsFirstParentEdge(edges[i]) =>
            /\ edges[i].to_column = edges[i].from_column
            /\ \E j \in DOMAIN nodes :
                  /\ nodes[j].sha = edges[i].from_sha
                  /\ nodes[j].column = edges[i].from_column

\* A first-parent edge leaves a commit that is not in column 0 while lane 0
\* is empty.
C5_Witness ==
    /\ pc # "idle"
    /\ \E i \in DOMAIN edges :
          /\ IsFirstParentEdge(edges[i])
          /\ edges[i].from_column >= 1
          /\ Len(active_columns) >= 1
          /\ active_columns[1] = None

\* C6: within one build the column recorded for a commit id never changes,
\* and the node of the commit carries it.
C6_ColumnFixed ==
    [][(pc # "idle" /\ pc' # "idle") =>
         /\ \A c \in DOMAIN sha_to_column : sha_to_column'[c] = sha_to_column[c]
         /\ \A i \in DOMAIN nodes' :
               nodes'[i].column = sha_to_column'[nodes'[i].sha]]_vars

\* C7: every edge that leaves a commit with two or more parents is a Merge
\* edge, the first-parent edge in the commit's own column included.
C7_MergeEdges ==
    \A i \in DOMAIN edges :
        Len(parents[edges[i].from_sha]) >= 2 => edges[i].edge_type = Merge

\* A merge commit has its first-parent edge in its own column and another
\* edge to another column.
C7_Witness ==
    /\ Returning
    /\ \E i, j \in DOMAIN edges :
          /\ edges[i].from_sha = edges[j].from_sha
          /\ edges[i].to_column = edges[i].from_column
          /\ edges[j].to_column # edges[j].from_column
          /\ edges[i].edge_type = Merge

\* C8: the edge of a commit with exactly one parent is Linear exactly when
\* to_column = from_column, and Branch otherwise.
C8_LinearOrBranch ==
    \A i \in DOMAIN edges :
        Len(parents[edges[i].from_sha]) = 1 =>
            edges[i].edge_type =
                IF edges[i].to_column = edges[i].from_column
                THEN Linear ELSE Branch

\* A commit with one parent has a Linear edge in a column other than 0.
C8_Witness ==
    /\ Returning
    /\ \E i \in DOMAIN edges :
          /\ Len(parents[edges[i].from_sha]) = 1
          /\ edges[i].from_column >= 1
          /\ edges[i].edge_type = Linear

\* Node i is a commit whose only parent is the commit of node b.
OnlyChildEdge(i, b) == parents[nodes[i].sha] = <<nodes[b].sha>>

\* C9: when two commits of a build result have the same commit B of the
\* result as only parent, the edge of the child in B's column is Linear and
\* the edge of the other child is Branch.
C9_DivergingEdgeTypes ==
    Returning =>
        \A b, i, j \in DOMAIN nodes :
            (i # j /\ OnlyChildEdge(i, b) /\ OnlyChildEdge(j, b)) =>
                \A k \in EdgesFrom(nodes[i].sha) :
                    edges[k].edge_type =
                        IF nodes[i].column = nodes[b].column
                        THEN Linear ELSE Branch

\* C10: two commits with the same first parent, both visited before it, are
\* in different columns.
C10_SiblingsApart ==
    \A i, j \in DOMAIN nodes :
        (/\ i # j
         /\ parents[nodes[i].sha] # <<>>
         /\ parents[nodes[j].sha] # <<>>
         /\ parents[nodes[i].sha][1] = parents[nodes[j].sha][1]) =>
            nodes[i].column # nodes[j].column

\* A build returns two commits with the same first parent, the second of
\* which had a column reserved by a child of its own.
C10_Witness ==
    /\ Returning
    /\ \E i, j, k \in DOMAIN nodes :
          /\ i < j
          /\ k < j
          /\ parents[nodes[i].sha] # <<>>
          /\ parents[nodes[j].sha] # <<>>
          /\ parents[nodes[i].sha][1] = parents[nodes[j].sha][1]
          /\ nodes[j].sha \in Range(parents[nodes[k].sha])

\* The window is a first-parent chain that ends at a root.
IsChain(w) ==
    \A i \in DOMAIN w :
        parents[w[i]] = IF i < Len(w) THEN <<w[i + 1]>> ELSE <<>>

\* C11: the build of a window that is one first-parent chain of n commits
\* ending at a root has n nodes, all in column 0, and n - 1 edges, all
\* Linear.
C11_LinearHistory ==
    (Returning /\ commits # <<>> /\ IsChain(commits)) =>
        /\ Len(nodes) = Len(commits)
        /\ \A i \in DOMAIN nodes : nodes[i].column = 0
        /\ Len(edges) = Len(commits) - 1
        /\ \A i \in DOMAIN edges : edges[i].edge_type = Linear

\* A build returns the layout of a chain of three or more commits.
C11_Witness ==
    /\ Returning
    /\ Len(commits) >= 3
    /\ IsChain(commits)
    /\ Len(nodes) = Len(commits)

\* C12: on an empty repository (no commit, HEAD unborn) build returns
\* successfully, with an empty node list and max_column 0, not an error.
C12_EmptyRepositoryBuilds ==
    (WalkLen = 0 /\ ~head_born) =>
        /\ result # "build_err"
        /\ Returning => (nodes = <<>> /\ max_column = 0)

\* C13: two builds over the same commit sequence and parent lists give the
\* same nodes (column, row, color) and the same edges: the result of a
\* repeated open_repository or refresh equals what GitState holds from the
\* earlier build of the same window (later pages may follow it there).
C13_Determinism ==
    (Returning /\ caller = "open" /\ gs_commits # <<>>) =>
        LET old == gs_commits[1]
        IN  /\ Len(old.nodes) >= Len(nodes)
            /\ SubSeq(old.nodes, 1, Len(nodes)) = nodes
            /\ Len(old.edges) >= Len(edges)
            /\ SubSeq(old.edges, 1, Len(edges)) = edges
            /\ old.max_column = max_column

\* A second build of the first page returns a merge commit and another
\* commit while GitState holds the earlier result and a later page.
C13_Witness ==
    /\ Returning
    /\ caller = "open"
    /\ gs_commits # <<>>
    /\ Len(nodes) >= 2
    /\ Len(gs_commits[1].nodes) > Len(nodes)
    /\ \E i \in DOMAIN edges : edges[i].edge_type = Merge

\* The offset and limit the running build was called with.
BuildOffset == IF caller = "more" THEN CurrentCount ELSE 0

BuildLimit == IF caller = "build" THEN WalkLen ELSE PageLimit

\* The window as the claim describes it: from walk position i on, the
\* commits that resolve, until n of them are collected or the walk ends.
RECURSIVE TakeResolved(_, _)
TakeResolved(i, n) ==
    IF i > WalkLen \/ n = 0 THEN <<>>
    ELSE IF i \in failing
         THEN TakeResolved(i + 1, n)
         ELSE <<i>> \o TakeResolved(i + 1, n - 1)

ClaimedWindow(offset, limit) == TakeResolved(offset + 1, limit)

\* C14: build(limit, offset) skips the first offset visited commits and then
\* collects records in walk order until it has limit of them or the walk is
\* exhausted; the returned nodes are the commits collected that way.
C14_WindowCollectsLimit ==
    Returning =>
        [i \in DOMAIN nodes |-> nodes[i].sha] = ClaimedWindow(BuildOffset, BuildLimit)

\* C15: when the build inside load_more_commits fails, the call returns the
\* error, no graph data is produced, and the nodes, edges and max_column
\* held by GitState stay exactly as they were.
C15_FailedLoadKeepsGraph ==
    [][result' = "more_err" =>
          /\ gs_commits' = gs_commits
          /\ pc' = "idle"
          /\ nodes' = <<>>
          /\ edges' = <<>>]_vars

\* load_more_commits has failed while GitState holds a loaded graph.
C15_Witness ==
    /\ result = "more_err"
    /\ gs_commits # <<>>
    /\ Len(gs_commits[1].nodes) >= 2
    /\ gs_commits[1].edges # <<>>

\* The walk positions offset+1 .. offset+limit whose lookup succeeds, in
\* walk order.
ResolvedOfWindow(offset, limit) ==
    SelectSeq([i \in 1..WalkLen |-> i],
              LAMBDA c : c - 1 >= offset /\ c - 1 < offset + limit
                         /\ c \notin failing)

\* C16: a commit whose lookup fails in the middle of the walk is left out
\* and the build still succeeds: the build returns Ok, and its nodes are all
\* the other commits of the window, in walk order.
C16_FailedLookupSkipped ==
    [][(Returning /\ pc' = "idle") =>
          /\ result' \in {"open_ok", "more_ok", "build_ok"}
          /\ [i \in DOMAIN nodes |-> nodes[i].sha]
                = ResolvedOfWindow(BuildOffset, BuildLimit)]_vars

\* A build returns commits visited before and after a commit whose lookup
\* failed.
C16_Witness ==
    /\ Returning
    /\ \E c \in failing :
          /\ \E i \in DOMAIN nodes : nodes[i].sha < c
          /\ \E i \in DOMAIN nodes : nodes[i].sha > c

\* C20: every edge whose `to` commit has a node in the same build result
\* ends at that node: its to_column and to_row are the node's column and row.
C20_EdgeEndsAtParentNode ==
    Returning =>
        \A e \in DOMAIN edges : \A n \in DOMAIN nodes :
            nodes[n].sha = edges[e].to_sha =>
                /\ edges[e].to_column = nodes[n].column
                /\ edges[e].to_row = nodes[n].row

\* Two strings that differ at most in the case of their letters.
SameLetters(a, b) ==
    /\ Len(a) = Len(b)
    /\ \A i \in DOMAIN a : ToLower(a[i]) = ToLower(b[i])

ContainsIgnoringCase(s, q) ==
    \E i \in 0..(Len(s) - Len(q)) : SameLetters(SubSeq(s, i + 1, i + Len(q)), q)

StartsWithIgnoringCase(s, q) ==
    Len(q) <= Len(s) /\ SameLetters(SubSeq(s, 1, Len(q)), q)

\* A loaded commit that the query selects.
Selected(n, q) ==
    \/ ContainsIgnoringCase(n.message, q)
    \/ ContainsIgnoringCase(n.author, q)
    \/ StartsWithIgnoringCase(Hex(n.sha), q)
    \/ StartsWithIgnoringCase(n.short_sha, q)

\* The node list that GitState holds.
Loaded == IF gs_commits = <<>> THEN <<>> ELSE gs_commits[1].nodes

\* C17: search_commits(query, cap) returns, in their original order, exactly
\* the first cap loaded commits whose message or author contains the query
\* or whose full or short sha starts with it, case being ignored; it returns
\* nothing for the empty query and when no commits are loaded, and it leaves
\* the loaded graph and the repository as they are.
C17_SearchReturnsFirstMatches ==
    [][search' # search =>
          /\ UNCHANGED <<repo, path, gs_commits>>
          /\ LET M == {i \in DOMAIN Loaded : Selected(Loaded[i], query')}
                 k == IF cap' < Cardinality(M) THEN cap' ELSE Cardinality(M)
             IN  IF query' = <<>> THEN found' = <<>>
                 ELSE /\ Len(found') = k
                      /\ \A j \in 1..k : \E i \in M :
                            /\ Cardinality({x \in M : x <= i}) = j
                            /\ found'[j] = CommitOf(Loaded[i])]_vars

\* A search with an upper-case query and cap 1 over three loaded commits has
\* returned the second commit: the first does not match, the cap cuts off
\* the third, which matches too.
C17_Witness ==
    /\ Len(Loaded) = 3
    /\ cap = 1
    /\ query # ToLowercase(query)
    /\ found = <<CommitOf(Loaded[2])>>
    /\ Selected(Loaded[3], query)

\* C18: the color of every node is palette[column mod 8] for the 8-entry
\* palette, so nodes in columns c and c + 8 have the same color, and the
\* color of every edge is the color of its child (from) node.
C18_ColorsCycle ==
    /\ Len(COLORS) = 8
    /\ \A i \in DOMAIN nodes : nodes[i].color = COLORS[(nodes[i].column % 8) + 1]
    /\ \A i, j \in DOMAIN nodes :
          nodes[j].column = nodes[i].column + 8 => nodes[j].color = nodes[i].color
    /\ \A e \in DOMAIN edges : \A i \in DOMAIN nodes :
          nodes[i].sha = edges[e].from_sha => edges[e].color = nodes[i].color

\* A build has placed nodes in columns c and c + 8, and the node in column
\* c + 8 has an edge.
C18_Witness ==
    /\ Returning
    /\ \E i, j \in DOMAIN nodes :
          /\ nodes[j].column = nodes[i].column + 8
          /\ \E e \in DOMAIN edges : edges[e].from_sha = nodes[j].sha

\* The name of the tag behind a reference refs/tags/<name>.
TagName(r) == Tail(r)

\* The commit a tag points at: itself, or the commit its tag object
\* annotates.
TaggedCommit(oid) == IF oid < 0 THEN 0 - oid ELSE oid

\* C19: the branch, remote and tag name lists of every node hold exactly the
\* names of the local branches, remote branches and tags whose target (for
\* an annotated tag: the commit it annotates) is the node's commit.
C19_RefNamesOnNodes ==
    \A i \in DOMAIN nodes :
        LET n == nodes[i]
        IN  /\ Range(n.branches)
                 = {b \in DOMAIN refs.branches : refs.branches[b] = n.sha}
            /\ Range(n.remotes)
                 = {b \in DOMAIN refs.remotes : refs.remotes[b] = n.sha}
            /\ Range(n.tags)
                 = {TagName(r) : r \in {x \in DOMAIN refs.tags :
                                           TaggedCommit(refs.tags[x]) = n.sha}}

\* C21: every occupied slot of the lane table holds a commit that has not
\* been visited in this build: once a commit is visited, no lane keeps
\* holding its id.
C21_LanesHoldUnvisited ==
    \A l \in DOMAIN active_columns :
        active_columns[l] # None => active_columns[l] \notin NodeShas

\* The commits that have a column recorded and have not been visited yet.
Expected == (DOMAIN sha_to_column) \ NodeShas

\* The columns recorded for the not-yet-visited commits are pairwise
\* distinct.
ExpectedColumnsDistinct ==
    \A a, b \in Expected : a # b => sha_to_column[a] # sha_to_column[b]

\* C22: at every step of layout_graph the columns recorded for not-yet-
\* visited commits are pairwise distinct, and the commit that is visited
\* next is not placed in a column whose lane is reserved at that moment for
\* a different not-yet-visited commit.
C22_NoColumnClash ==
    /\ ExpectedColumnsDistinct
    /\ (pc = "commit" /\ row < Len(commits)) =>
          LET col == CommitColumn(Sha, sha_to_column, active_columns)
          IN  col < Len(active_columns) =>
                 active_columns[col + 1] \in {None, Sha} \cup NodeShas

\* Two commits are expected in different lanes, and the commit visited next
\* has no column recorded: it has to take a lane beside theirs.
C22_Witness ==
    /\ pc = "commit"
    /\ row < Len(commits)
    /\ Sha \notin DOMAIN sha_to_column
    /\ Cardinality(Expected) >= 2

\* P is the first parent of X and no other commit of the window lists P as
\* a parent.
SingleChildFirstParent(x, p) ==
    /\ parents[x] # <<>>
    /\ parents[x][1] = p
    /\ \A i \in DOMAIN commits :
          commits[i] # x => p \notin Range(parents[commits[i]])

\* C23: if P is the first parent of X, both have nodes in the same build and
\* no other commit of the window lists P as a parent, then P's node is in
\* the column of X's node.
C23_SingleChildChainOneLane ==
    \A i, j \in DOMAIN nodes :
        SingleChildFirstParent(nodes[i].sha, nodes[j].sha) =>
            nodes[j].column = nodes[i].column

\* A single-child first parent has been placed in its child's column, which
\* is not column 0, after another commit was visited between the two.
C23_Witness ==
    /\ Returning
    /\ \E i, j \in DOMAIN nodes :
          /\ SingleChildFirstParent(nodes[i].sha, nodes[j].sha)
          /\ j > i + 1
          /\ nodes[i].column > 0

\* The 0-based indexes of the empty slots of a lane table.
EmptyLanes(ac) == {l - 1 : l \in {k \in DOMAIN ac : ac[k] = None}}

\* C24: a visited commit that has no reserved column is placed in the
\* lowest-index empty slot of the lane table, or in a newly appended lane
\* (index = previous table length) when no slot is empty.
C24_TipTakesFirstFreeLane ==
    [][(pc = "commit" /\ Len(nodes') = Len(nodes) + 1
           /\ Sha \notin DOMAIN sha_to_column) =>
          LET col == nodes'[Len(nodes')].column
              free == EmptyLanes(active_columns)
          IN  IF free = {} THEN col = Len(active_columns)
              ELSE col \in free /\ \A l \in free : col <= l]_vars

\* The commit visited last is no parent of an earlier commit of the window
\* and has taken the empty lane 0 although the table has further lanes.
C24_Witness ==
    /\ pc # "idle"
    /\ Len(nodes) >= 3
    /\ Len(active_columns) >= 2
    /\ LET n == nodes[Len(nodes)]
       IN  /\ n.column = 0
           /\ \A i \in 1..(Len(nodes) - 1) : n.sha \notin Range(nodes[i].parents)

\* The positions, in the edge list es, of the edges of the commit `sha` to
\* its parents of index >= 1.
OtherParentEdges(es, sha) ==
    {i \in DOMAIN es : es[i].from_sha = sha /\ es[i].to_sha # parents[sha][1]}

\* C25: every parent of index >= 1 is given the first empty lane, or a newly
\* appended one when none is empty, and the lane is marked as expecting it;
\* so its edge has to_column # from_column, and different non-first parents
\* of one commit get different to_columns.
C25_OtherParentsTakeFreeLanes ==
    [][(pc = "parents" /\ parent_idx >= 1 /\ Len(edges') = Len(edges) + 1) =>
          LET e == edges'[Len(edges')]
              free == EmptyLanes(active_columns)
              others == OtherParentEdges(edges', Sha)
          IN  /\ IF free = {} THEN e.to_column = Len(active_columns)
                 ELSE e.to_column \in free /\ \A l \in free : e.to_column <= l
              /\ e.to_column < Len(active_columns')
              /\ active_columns'[e.to_column + 1] = e.to_sha
              /\ e.to_column # e.from_column
              /\ \A a, b \in others :
                    a # b => edges'[a].to_column # edges'[b].to_column]_vars

\* The last parent processed is not a first parent and has taken an empty
\* slot inside the lane table, not an appended lane.
C25_Witness ==
    /\ pc # "idle"
    /\ edges # <<>>
    /\ LET e == edges[Len(edges)]
       IN  /\ e.to_sha # parents[e.from_sha][1]
           /\ e.to_column + 1 < Len(active_columns)
           /\ Len(parents[e.from_sha]) >= 2

\* C26: the to_row of every edge is the parent's row when the parent was
\* visited before the child in the same build, and from_row + 1 otherwise;
\* as the walk lists children before parents, every edge has
\* to_row = from_row + 1.
C26_ToRowIsNextRow ==
    \A e \in DOMAIN edges :
        /\ \A n \in DOMAIN nodes :
              (nodes[n].sha = edges[e].to_sha /\ nodes[n].row < edges[e].from_row)
                 => edges[e].to_row = nodes[n].row
        /\ edges[e].to_row = edges[e].from_row + 1

\* A build returns an edge from a commit below the first row whose parent
\* was visited more than one row after it.
C26_Witness ==
    /\ Returning
    /\ \E e \in DOMAIN edges : \E n \in DOMAIN nodes :
          /\ edges[e].from_row >= 1
          /\ nodes[n].sha = edges[e].to_sha
          /\ nodes[n].row > edges[e].from_row + 1

\* C27: load_more_commits calls build with offset = the number of loaded
\* nodes and appends the returned nodes and edges after the loaded ones,
\* which stay unchanged and in their positions.
C27_LoadMoreAppends ==
    [][(Returning /\ caller = "more" /\ pc' = "idle" /\ gs_commits # <<>>) =>
          LET old == gs_commits[1]
              new == gs_commits'[1]
          IN  /\ commits = ResolvedOfWindow(Len(old.nodes), PageLimit)
              /\ Len(new.nodes) = Len(old.nodes) + Len(nodes)
              /\ SubSeq(new.nodes, 1, Len(old.nodes)) = old.nodes
              /\ SubSeq(new.nodes, Len(old.nodes) + 1, Len(new.nodes)) = nodes
              /\ Len(new.edges) = Len(old.edges) + Len(edges)
              /\ SubSeq(new.edges, 1, Len(old.edges)) = old.edges
              /\ SubSeq(new.edges, Len(old.edges) + 1, Len(new.edges)) = edges]_vars

\* load_more_commits has returned and GitState holds two pages, the second
\* with a node and an edge of its own.
C27_Witness ==
    /\ result = "more_ok"
    /\ gs_commits # <<>>
    /\ Len(gs_commits[1].nodes) > PageLimit
    /\ \E e \in DOMAIN gs_commits[1].edges :
          gs_commits[1].edges[e].from_sha = gs_commits[1].nodes[PageLimit + 1].sha

\* C28: after open_repository and any number of load_more_commits calls, no
\* commit appears twice in the loaded node list, and the list follows walk
\* order without leaving out a resolvable commit between two loaded ones.
C28_LoadedListFollowsWalk ==
    \A i, j \in DOMAIN Loaded :
        i < j =>
            /\ Loaded[i].sha < Loaded[j].sha
            /\ j = i + 1 =>
                  \A c \in (Loaded[i].sha + 1)..(Loaded[j].sha - 1) : c \in failing

\* C29: in the graph data held by GitState the i-th node has row i (counted
\* from 0), so the rows of the loaded nodes are pairwise distinct.
C29_LoadedRowsAreIndexes ==
    /\ \A i \in DOMAIN Loaded : Loaded[i].row = i - 1
    /\ \A i, j \in DOMAIN Loaded : i # j => Loaded[i].row # Loaded[j].row

\* C30: every build starts from an empty lane table and empty row and
\* column maps, so the first node of every non-empty build result, also of
\* a page requested with offset > 0, has row 0 and column 0.
C30_FirstNodeAtOrigin ==
    /\ nodes # <<>> => (nodes[1].row = 0 /\ nodes[1].column = 0)
    /\ (pc = "commit" /\ row = 0) =>
          /\ active_columns = <<>>
          /\ sha_to_row = EmptyMap
          /\ sha_to_column = EmptyMap

\* A later page has been built whose first commit is a parent of a commit
\* of the loaded pages, which had reserved a column other than 0 for it.
C30_Witness ==
    /\ Returning
    /\ caller = "more"
    /\ nodes # <<>>
    /\ gs_commits # <<>>
    /\ \E e \in DOMAIN gs_commits[1].edges :
          /\ gs_commits[1].edges[e].to_sha = nodes[1].sha
          /\ gs_commits[1].edges[e].to_column > 0

\* A repository with commits and a born HEAD, or the empty repository (no
\* commit, HEAD unborn).
InitRepo ==
    \/ /\ parents \in Repos(1)
       /\ failing \in {f \in SUBSET Commits : Cardinality(f) <= MaxFail}
       /\ head_born = TRUE
    \/ /\ parents = EmptyMap
       /\ failing = {}
       /\ head_born = FALSE

\* GitState::new(), and no call running.
InitState ==
    /\ query = <<>>
    /\ cap = 0
    /\ found = <<>>
    /\ path = FALSE
    /\ gs_commits = <<>>
    /\ pc = "idle"
    /\ caller = "none"
    /\ result = "none"
    /\ commits = <<>>
    /\ row = 0
    /\ parent_idx = 0
    /\ column = 0
    /\ nodes = <<>>
    /\ edges = <<>>
    /\ max_column = 0
    /\ active_columns = <<>>
    /\ sha_to_row = EmptyMap
    /\ sha_to_column = EmptyMap

\* Commits without text and no references.
InitPlain ==
    /\ texts = [c \in DOMAIN parents |-> NoText]
    /\ refs = NoRefs

Init ==
    /\ InitRepo
    /\ InitPlain
    /\ InitState

\* A linear history of n commits.
ChainOf(n) == [c \in 1..n |-> IF c < n THEN <<c + 1>> ELSE <<>>]

\* Searched repositories: a linear history whose commits carry text.
InitSearch ==
    /\ parents = ChainOf(ChainLen)
    /\ failing = {}
    /\ head_born = TRUE
    /\ texts \in [DOMAIN parents -> CommitTexts]
    /\ refs = NoRefs
    /\ InitState

NextSearch ==
    \/ OpenRepository
    \/ LoadMoreCommits
    \/ CloseRepository
    \/ LayoutCommit
    \/ LayoutParent
    \/ BuildReturn
    \/ SearchCommits

\* Wide repositories: commit 1 is an octopus merge of the commits 2 .. k + 1.
\* The commits after it are roots ("roots"), or each has the next one as its
\* parent ("chain"), or the last parent of the merge alone has a parent, the
\* last commit ("tail").
Octopus(k, shape) ==
    [c \in 1..(MaxWide + 2) |->
        IF c = 1 THEN [i \in 1..k |-> i + 1]
        ELSE IF shape = "chain" /\ c < MaxWide + 2 THEN <<c + 1>>
        ELSE IF shape = "tail" /\ c = k + 1 THEN <<MaxWide + 2>>
        ELSE <<>>]

InitWide ==
    /\ parents \in {Octopus(k, shape) : k \in 0..MaxWide,
                                        shape \in {"roots", "chain", "tail"}}
    /\ failing = {}
    /\ head_born = TRUE
    /\ InitPlain
    /\ InitState

NextBuild ==
    \/ Build
    \/ LayoutCommit
    \/ LayoutParent
    \/ BuildReturn

\* Repositories with references: two local branches, two remote branches
\* (a remote branch may be symbolic: no direct target) and three tags,
\* lightweight or annotated, one of them named "refs/tags/v1".
InitRefs ==
    /\ parents = ChainOf(RefCommits)
    /\ failing = {}
    /\ head_born = TRUE
    /\ texts = [c \in DOMAIN parents |-> NoText]
    /\ refs \in [branches : [BranchNames -> DOMAIN parents],
                 remotes : [RemoteNames -> {None} \cup DOMAIN parents],
                 tags : [TagRefs -> DOMAIN parents
                                      \cup {TagObject(c) : c \in DOMAIN parents}]]
    /\ InitState

\* The parent lists of the repositories with merges: the next k commits of
\* the walk, in walk order or in reverse order.
RunLists(c) ==
    LET most == IF MergeLen - c < MergeParents THEN MergeLen - c ELSE MergeParents
    IN  {[i \in 1..k |-> c + i] : k \in 0..most}
           \cup {[i \in 1..k |-> c + k + 1 - i] : k \in 0..most}

RECURSIVE MergeRepos(_)
MergeRepos(c) ==
    IF c > MergeLen THEN {EmptyMap}
    ELSE {Insert(m, c, p) : m \in MergeRepos(c + 1), p \in RunLists(c)}

InitMerge ==
    /\ parents \in MergeRepos(1)
    /\ failing = {}
    /\ head_born = TRUE
    /\ InitPlain
    /\ InitState

Next ==
    \/ OpenRepository
    \/ OpenRepositoryFails
    \/ Refresh
    \/ RefreshFails
    \/ LoadMoreCommits
    \/ LoadMoreCommitsFails
    \/ CloseRepository
    \/ Build
    \/ BuildFails
    \/ LayoutCommit
    \/ LayoutParent
    \/ BuildReturn

Spec == Init /\ [][Next]_vars


\* Loading pages of a linear history and searching the loaded commits.
SpecSearch == InitSearch /\ [][NextSearch]_vars

\* Building the graph of a wide repository.
SpecWide == InitWide /\ [][NextBuild]_vars

\* Building the graph of a repository with references.
SpecRefs == InitRefs /\ [][NextBuild]_vars

\* Building the graph of a repository with merges of several branches.
SpecMerge == InitMerge /\ [][NextBuild]_vars

====
